---- MODULE Spec2Model ----
(***************************************************************************)
(* Image Denoise & Sharpen Batch Tool: the batch driver (main.py), the     *)
(* per-image pipeline (src/processor.py), the filter selectors             *)
(* (src/filters.py) and the configuration / file helpers (src/utils.py).   *)
(*                                                                         *)
(* Spec         the whole program: load_config, main, process_image        *)
(* SpecUnsharp  SharpenFilter.unsharp_mask on one 8-bit sample             *)
(* SpecResize   ImageProcessor._resize_image on one image shape            *)
(* SpecSave     ImageProcessor._save_image's writer parameters             *)
(* SpecNlmeans  apply_denoise with mode nlmeans on one image buffer        *)
(***************************************************************************)
EXTENDS Integers, Sequences, FiniteSets, TLC

VARIABLES
    \* ---- a single call of a pure helper (SpecUnsharp, SpecResize, SpecSave)
    args,            \* the arguments of the call
    result,          \* what the call returned (None before it returns)
    fpc,             \* "idle" | "call" | "return"
    \* ---- the program (Spec)
    configFile,      \* what config.yaml is on disk
    config,          \* main's `config`: what load_config returned
    pc,              \* main's position
    directory,       \* the entries of the input directory
    image_files,     \* main's `image_files`
    done,            \* number of loop iterations of main completed
    success_count,   \* main's counter
    fail_count,      \* main's counter
    ppc,             \* process_image's position
    image,           \* process_image's `image`
    output_path,     \* process_image's `output_path`
    trace,           \* the stage events of the current process_image call
    calls,           \* the image_path of every process_image call, in order
    returned,        \* the outcome of every process_image call, in order
    disk,            \* the files of the output directory
    summary          \* the processing parameters main printed last

fnVars   == <<args, result, fpc>>
mainVars == <<configFile, config, pc, directory, image_files, done,
              success_count, fail_count, ppc, image, output_path, trace,
              calls, returned, disk, summary>>
vars     == <<args, result, fpc, configFile, config, pc, directory,
              image_files, done, success_count, fail_count, ppc, image,
              output_path, trace, calls, returned, disk, summary>>

\* Optional values: Python's None, a missing dictionary key and "nothing yet"
\* are the empty sequence, a value v that is there is <<v>>.
None    == <<>>
Absent  == <<>>
Some(v) == <<v>>

(***************************************************************************)
(* Bounds of the model.                                                    *)
(***************************************************************************)
MaxThreshold == 3     \* unsharp_mask thresholds 1..MaxThreshold
MaxDim       == 5     \* image widths and heights 1..MaxDim (SpecResize)
MaxMax       == 3     \* max_width, max_height 1..MaxMax (SpecResize)
QualitySpan  == 40    \* quality in -QualitySpan .. 100+QualitySpan
MaxFiles     == 2     \* entries of the input directory
MaxSide      == 5     \* image heights and widths 1..MaxSide (SpecNlmeans)

Min(a, b) == IF a <= b THEN a ELSE b
Max(a, b) == IF a >= b THEN a ELSE b

(***************************************************************************)
(* SharpenFilter.unsharp_mask, per 8-bit sample.                           *)
(* `blurred` is the sample cv2.GaussianBlur produced at the same position: *)
(* any 8-bit value, depending on the neighbourhood.  strength is given in  *)
(* halves (strength2 = 2 * strength), so 3 is the default 1.5.             *)
(***************************************************************************)
Samples   == 0 .. 255
Strengths == {1, 3}

\* numpy uint8 arithmetic: image - blurred wraps modulo 2^8.
Sub8(a, b) == (a - b + 256) % 256

\* np.abs on an unsigned array returns it unchanged.
Abs8(x) == x

\* cvRound: round to nearest, ties to even; n / d with d > 0.
RoundHalfEven(n, d) ==
    LET q == n \div d          \* floor
        r == n - q * d         \* 0 <= r < d
    IN  IF 2 * r < d THEN q
        ELSE IF 2 * r > d THEN q + 1
        ELSE IF q % 2 = 0 THEN q ELSE q + 1

\* saturate_cast<uchar>
Saturate8(x) == Max(0, Min(255, x))

\* cv2.addWeighted(image, 1.0 + strength, blurred, -strength, 0) on uint8.
addWeighted(o, b, strength2) ==
    Saturate8(RoundHalfEven((2 + strength2) * o - strength2 * b, 2))

low_contrast_mask(o, b, threshold) == Abs8(Sub8(o, b)) < threshold

unsharp_mask(o, b, strength2, threshold) ==
    LET sharpened == addWeighted(o, b, strength2)
    IN  IF threshold > 0
        THEN IF low_contrast_mask(o, b, threshold) THEN o ELSE sharpened
        ELSE sharpened

UnsharpArgs ==
    [fn : {"unsharp_mask"}, image : Samples, blurred : Samples,
     strength2 : Strengths, threshold : 0 .. MaxThreshold]

(***************************************************************************)
(* ImageProcessor._resize_image, on the image's shape.                     *)
(* scale = min(max_width / w, max_height / h) is a ratio; int(w * scale)   *)
(* truncates, which for these non-negative values is the floor.            *)
(***************************************************************************)
\* int(x) for x = n / d, d > 0: truncation toward zero.
IntTrunc(n, d) == IF n >= 0 THEN n \div d ELSE -((-n) \div d)

\* (new_w, new_h) of lines 107-114.
new_size(w, h, max_width, max_height, preserve_aspect) ==
    IF preserve_aspect
    THEN IF max_width * h <= max_height * w
         THEN \* scale = max_width / w
              <<IntTrunc(w * max_width, w), IntTrunc(h * max_width, w)>>
         ELSE \* scale = max_height / h
              <<IntTrunc(w * max_height, h), IntTrunc(h * max_height, h)>>
    ELSE <<max_width, max_height>>

\* cv2.resize raises for a destination size with a zero side.
resize_raises(size) == size[1] <= 0 \/ size[2] <= 0

\* The shape _resize_image returns; raised when cv2.resize raises (size is
\* then the destination size it was given).
resize_image(w, h, max_width, max_height, preserve_aspect) ==
    IF w <= max_width /\ h <= max_height
    THEN [raised |-> FALSE, size |-> <<w, h>>]
    ELSE LET size == new_size(w, h, max_width, max_height, preserve_aspect)
         IN  [raised |-> resize_raises(size), size |-> size]

ResizeArgs ==
    [fn : {"_resize_image"}, w : 1 .. MaxDim, h : 1 .. MaxDim,
     max_width : 1 .. MaxMax, max_height : 1 .. MaxMax,
     preserve_aspect : BOOLEAN]
    \cup
    [fn : {"_resize_image"}, w : {3000}, h : {2000, 1},
     max_width : {1920}, max_height : {1080}, preserve_aspect : BOOLEAN]

(***************************************************************************)
(* ImageProcessor._save_image: the parameters handed to cv2.imwrite.       *)
(***************************************************************************)
\* str.lower() on the format names and extensions the model uses.
Lower(s) ==
    CASE s = "PNG"  -> "png"
      [] s = "JPG"  -> "jpg"
      [] s = ".JPG" -> ".jpg"
      [] s = ".PNG" -> ".png"
      [] OTHER      -> s

\* Mutant: the level rounded to nearest instead of truncated.
png_compression_rounded(quality) ==
    Max(0, Min(9, RoundHalfEven(100 - quality, 10)))

png_compression(quality) ==
    Max(0, Min(9, IntTrunc(100 - quality, 10)))

save_params(format, quality) ==
    LET output_format == Lower(format)
    IN  IF output_format \in {"jpg", "jpeg"}
        THEN <<"IMWRITE_JPEG_QUALITY", quality>>
        ELSE IF output_format = "png"
        THEN <<"IMWRITE_PNG_COMPRESSION", png_compression(quality)>>
        ELSE IF output_format = "webp"
        THEN <<"IMWRITE_WEBP_QUALITY", quality>>
        ELSE <<>>

SaveArgs ==
    [fn : {"_save_image"}, format : {"png", "PNG", "jpg", "webp", "bmp"},
     quality : (0 - QualitySpan) .. (100 + QualitySpan)]

(***************************************************************************)
(* Configuration (src/utils.py).  A configuration is the nested dictionary *)
(* yaml.safe_load returns, flattened: every key the program reads is a     *)
(* field, Absent when the key or its section is missing.  The output       *)
(* section is either missing or complete.                                  *)
(***************************************************************************)
Paths == [input_dir |-> "input", output_dir |-> "output"]

get_default_config ==
    [paths |-> Some(Paths),
     denoise_mode |-> Some("bilateral"),
     sharpen_enabled |-> Some(TRUE), sharpen_mode |-> Some("unsharp_mask"),
     format |-> Some("png"), quality |-> Some(95),
     prefix |-> Some("processed_"), keep_original_name |-> Some(TRUE),
     resize |-> Some(FALSE), max_width |-> Some(1920),
     max_height |-> Some(1080), preserve_aspect_ratio |-> Some(TRUE),
     verbose |-> Some(TRUE)]

\* The mappings config.yaml may hold.
ConfigMappings ==
    { [paths |-> p, denoise_mode |-> dm,
       sharpen_enabled |-> se, sharpen_mode |-> sm,
       format |-> f,
       quality |-> IF f = Absent THEN Absent ELSE Some(95),
       prefix |-> IF f = Absent THEN Absent ELSE Some("processed_"),
       keep_original_name |-> Absent,
       resize |-> rs, max_width |-> Absent, max_height |-> Absent,
       preserve_aspect_ratio |-> Absent, verbose |-> vb] :
        p  \in {Absent, Some(Paths)},
        dm \in {Absent, Some("gaussian"), Some("wavelet")},
        se \in {Absent, Some(TRUE), Some(FALSE)},
        sm \in {Absent, Some("laplacian"), Some("highpass")},
        f  \in {Absent, Some("jpg")},
        rs \in {Absent, Some(TRUE)},
        vb \in {Absent, Some(FALSE)} }

\* config.yaml: missing, not parsable as YAML, empty (safe_load gives None)
\* or a mapping.
ConfigFiles ==
    [kind : {"missing", "unparsable", "empty"}, content : {get_default_config}]
    \cup [kind : {"mapping"}, content : ConfigMappings]

\* dict.get(key, default) and dict[key] on an optional field.
Get(field, default) == IF field = Absent THEN default ELSE field[1]
HasKey(field) == field # Absent

load_config(file) ==
    CASE file.kind = "missing"    -> Some(get_default_config)
      [] file.kind = "unparsable" -> Some(get_default_config)
      [] file.kind = "empty"      -> None
      [] OTHER                    -> Some(file.content)

\* print_config_summary subscripts these keys: a missing one is a KeyError.
print_config_summary_raises(c) ==
    \/ ~HasKey(c.paths)
    \/ ~HasKey(c.denoise_mode)
    \/ ~HasKey(c.sharpen_enabled)
    \/ (c.sharpen_enabled = Some(TRUE) /\ ~HasKey(c.sharpen_mode))
    \/ ~HasKey(c.format)
    \/ ~HasKey(c.quality)
    \/ ~HasKey(c.prefix)

(***************************************************************************)
(* File enumeration and output naming (src/utils.py).                      *)
(* A directory entry is its name split by os.path.splitext, and whether it *)
(* is a regular file.  Rank is the position of the entry's path in the     *)
(* lexicographic order sorted() uses.                                      *)
(***************************************************************************)
Entries ==
    { [stem |-> "a", ext |-> ".jpg", isfile |-> TRUE,  rank |-> 1],
      [stem |-> "a", ext |-> ".png", isfile |-> TRUE,  rank |-> 2],
      [stem |-> "b", ext |-> ".JPG", isfile |-> TRUE,  rank |-> 3],
      [stem |-> "n", ext |-> ".txt", isfile |-> TRUE,  rank |-> 4],
      [stem |-> "s", ext |-> ".png", isfile |-> FALSE, rank |-> 5] }

supported_formats == {".jpg", ".jpeg", ".png", ".bmp", ".tiff", ".tif", ".webp"}

\* The directories: a missing one (None) or one with at most MaxFiles entries.
Directories ==
    {None} \cup { Some(d) : d \in { s \in SUBSET Entries : Cardinality(s) <= MaxFiles } }

RECURSIVE sorted(_)
sorted(S) ==
    IF S = {} THEN <<>>
    ELSE LET first == CHOOSE x \in S : \A y \in S : x.rank <= y.rank
         IN  <<first>> \o sorted(S \ {first})

get_image_files(dir) ==
    IF dir = None THEN <<>>
    ELSE sorted({ e \in dir[1] : e.isfile /\ Lower(e.ext) \in supported_formats })

\* "{output_dir}/{prefix}{name_without_ext}.{output_format}", kept in parts.
generate_output_filename(input_path, output_dir, prefix, output_format, keep_original_name) ==
    LET name_without_ext == input_path.stem
    IN  IF keep_original_name
        THEN [dir |-> output_dir, prefix |-> prefix,
              name |-> name_without_ext, format |-> output_format]
        ELSE [dir |-> output_dir, prefix |-> prefix,
              name |-> input_path.stem, format |-> output_format]

(***************************************************************************)
(* The filter selectors (src/filters.py) and the stages of process_image   *)
(* (src/processor.py).  An image is its shape and the filters applied to   *)
(* it so far; whether a filter primitive raises is the environment's       *)
(* choice.                                                                 *)
(***************************************************************************)
DenoiseModes == {"gaussian", "mean", "median", "bilateral", "nlmeans"}
SharpenModes == {"laplacian", "unsharp_mask", "custom", "adaptive"}

\* The shapes cv2.imread may return (width, height).
Shapes == {<<800, 600>>, <<3000, 2000>>, <<3000, 1>>}

Filtered(img, op) == [img EXCEPT !.ops = Append(@, op)]

\* apply_denoise: the filtered image, or the exception raised.
apply_denoise(img, mode, primitive_raises) ==
    IF mode \in DenoiseModes
    THEN IF primitive_raises
         THEN [raised |-> "cv2.error", image |-> img]
         ELSE [raised |-> "", image |-> Filtered(img, mode)]
    ELSE [raised |-> "ValueError", image |-> img]

\* apply_sharpen: the filtered image, or the exception raised.
apply_sharpen(img, mode, primitive_raises) ==
    IF mode \in SharpenModes
    THEN IF primitive_raises
         THEN [raised |-> "cv2.error", image |-> img]
         ELSE [raised |-> "", image |-> Filtered(img, mode)]
    ELSE [raised |-> "ValueError", image |-> img]

\* ImageProcessor._apply_denoise: try apply_denoise, except Exception: image.
_apply_denoise(c, img, primitive_raises) ==
    LET mode     == Get(c.denoise_mode, "bilateral")
        denoised == apply_denoise(img, mode, primitive_raises)
    IN  [mode |-> mode, error |-> denoised.raised,
         image |-> IF denoised.raised = "" THEN denoised.image ELSE img]

\* Mutant: a failed sharpen falls back to the image as decoded, dropping the
\* stages already applied, instead of the image it was given.
_apply_sharpen_drops_stages(c, img, primitive_raises) ==
    LET mode      == Get(c.sharpen_mode, "unsharp_mask")
        sharpened == apply_sharpen(img, mode, primitive_raises)
    IN  [mode |-> mode, error |-> sharpened.raised,
         image |-> IF sharpened.raised = "" THEN sharpened.image
                   ELSE [img EXCEPT !.ops = <<>>]]

\* ImageProcessor._apply_sharpen: try apply_sharpen, except Exception: image.
_apply_sharpen(c, img, primitive_raises) ==
    LET mode      == Get(c.sharpen_mode, "unsharp_mask")
        sharpened == apply_sharpen(img, mode, primitive_raises)
    IN  [mode |-> mode, error |-> sharpened.raised,
         image |-> IF sharpened.raised = "" THEN sharpened.image ELSE img]

\* ImageProcessor._resize_image on an image.
_resize_image(c, img) ==
    LET r == resize_image(img.w, img.h, Get(c.max_width, 1920),
                          Get(c.max_height, 1080),
                          Get(c.preserve_aspect_ratio, TRUE))
    IN  [error |-> IF r.raised THEN "cv2.error" ELSE "",
         image |-> IF r.raised \/ r.size = <<img.w, img.h>> THEN img
                   ELSE [w |-> r.size[1], h |-> r.size[2],
                         ops |-> Append(img.ops, "resize")]]

\* One stage event of the trace.
Event(stage, mode, error, before, after) ==
    [stage |-> stage, mode |-> mode, error |-> error,
     before |-> before, after |-> after]

Stages(tr) == { tr[i].stage : i \in 1 .. Len(tr) }

\* The event of `stage` in the trace (a stage runs at most once).
EventOf(tr, stage) ==
    LET idx == { i \in 1 .. Len(tr) : tr[i].stage = stage }
    IN  IF idx = {} THEN None ELSE Some(tr[CHOOSE i \in idx : TRUE])

\* What a process_image call did, kept when it returns.
Outcome(tr, ret) ==
    [ret      |-> ret,
     decoded  |-> EventOf(tr, "decode") # None
                  /\ EventOf(tr, "decode")[1].error = "",
     wrote    |-> EventOf(tr, "write") # None
                  /\ EventOf(tr, "write")[1].error = "",
     denoise  |-> IF EventOf(tr, "denoise") = None THEN None
                  ELSE Some(EventOf(tr, "denoise")[1].mode),
     sharpen  |-> IF EventOf(tr, "sharpen") = None THEN None
                  ELSE Some(EventOf(tr, "sharpen")[1].mode),
     format   |-> IF EventOf(tr, "name") = None THEN None
                  ELSE Some(EventOf(tr, "name")[1].mode)]

\* Mutant: a failed image is not counted.
tally_skips_failures(sc, fc, ret) ==
    IF ret # None THEN <<sc + 1, fc>> ELSE <<sc, fc>>

\* main, lines 70-73: the counters after a call returned output_path.
tally(sc, fc, ret) ==
    IF ret # None THEN <<sc + 1, fc>> ELSE <<sc, fc + 1>>

\* ImageProcessor.get_processing_stats, as main prints it (lines 94-101).
get_processing_stats(c) ==
    [denoise_mode    |-> c.denoise_mode,
     sharpen_enabled |-> Get(c.sharpen_enabled, FALSE),
     sharpen_mode    |-> IF Get(c.sharpen_enabled, FALSE)
                         THEN c.sharpen_mode ELSE None,
     output_format   |-> c.format]

\* process_image, line 54: the stage after a successful decode.
after_decode(c) == IF Get(c.resize, FALSE) THEN "resize" ELSE "denoise"

\* Mutant: the sharpen stage is entered whatever sharpen.enabled says.
after_denoise_ignores_enabled(c) == "sharpen"

\* process_image, line 61: the stage after denoise.
after_denoise(c) == IF Get(c.sharpen_enabled, TRUE) THEN "sharpen" ELSE "name"

(***************************************************************************)
(* The program: main (main.py) calling process_image once per file.        *)
(***************************************************************************)
FnIdle == args = None /\ result = None /\ fpc = "idle"

MainIdle ==
    /\ configFile = [kind |-> "missing", content |-> get_default_config]
    /\ config = None /\ pc = "off" /\ directory = None
    /\ image_files = <<>> /\ done = 0
    /\ success_count = 0 /\ fail_count = 0
    /\ ppc = "idle" /\ image = None /\ output_path = None
    /\ trace = <<>> /\ calls = <<>> /\ returned = <<>>
    /\ disk = {} /\ summary = None

Init ==
    /\ FnIdle
    /\ configFile \in ConfigFiles
    /\ directory \in Directories
    /\ config = None /\ pc = "load"
    /\ image_files = <<>> /\ done = 0
    /\ success_count = 0 /\ fail_count = 0
    /\ ppc = "idle" /\ image = None /\ output_path = None
    /\ trace = <<>> /\ calls = <<>> /\ returned = <<>>
    /\ disk = {} /\ summary = None

\* The processor's configuration (ImageProcessor.__init__ keeps main's dict).
cfg == config[1]

\* main, line 32.
LoadConfig ==
    /\ pc = "load"
    /\ config' = load_config(configFile)
    /\ pc' = "summary"
    /\ UNCHANGED <<fnVars, configFile, directory, image_files, done,
                   success_count, fail_count, ppc, image, output_path, trace,
                   calls, returned, disk, summary>>

\* main, lines 35-36: config.get on None is an AttributeError, a missing key
\* in print_config_summary a KeyError; both end the program (lines 129-133).
ConfigSummary ==
    /\ pc = "summary"
    /\ pc' = IF config = None THEN "crashed"
             ELSE IF Get(cfg.verbose, TRUE) /\ print_config_summary_raises(cfg)
             THEN "crashed"
             ELSE "paths"
    /\ UNCHANGED <<fnVars, configFile, config, directory, image_files, done,
                   success_count, fail_count, ppc, image, output_path, trace,
                   calls, returned, disk, summary>>

\* main, lines 39-43: config['paths'] is a KeyError when the key is missing.
GetPaths ==
    /\ pc = "paths"
    /\ pc' = IF HasKey(cfg.paths) THEN "enumerate" ELSE "crashed"
    /\ UNCHANGED <<fnVars, configFile, config, directory, image_files, done,
                   success_count, fail_count, ppc, image, output_path, trace,
                   calls, returned, disk, summary>>

\* main, lines 46-65.
Enumerate ==
    /\ pc = "enumerate"
    /\ image_files' = get_image_files(directory)
    /\ pc' = IF image_files' = <<>> THEN "exit" ELSE "loop"
    /\ success_count' = 0 /\ fail_count' = 0
    /\ UNCHANGED <<fnVars, configFile, config, directory, done, ppc, image,
                   output_path, trace, calls, returned, disk, summary>>

\* main, lines 67-68: the next file is handed to process_image.
Call ==
    /\ pc = "loop" /\ ppc = "idle" /\ done < Len(image_files)
    /\ calls' = Append(calls, image_files[done + 1])
    /\ ppc' = "decode"
    /\ image' = None /\ output_path' = None /\ trace' = <<>>
    /\ UNCHANGED <<fnVars, configFile, config, pc, directory, image_files,
                   done, success_count, fail_count, returned, disk, summary>>

\* process_image returns `ret`.
Return(tr, ret) ==
    /\ ppc' = "return"
    /\ trace' = tr
    /\ returned' = Append(returned, Outcome(tr, ret))

\* process_image, lines 44-51.
Decode ==
    /\ ppc = "decode"
    /\ \/ \* cv2.imread returned None
          /\ Return(Append(trace, Event("decode", "", "unreadable", None, None)),
                    None)
          /\ UNCHANGED image
       \/ \E shape \in Shapes :
            LET img == [w |-> shape[1], h |-> shape[2], ops |-> <<>>]
            IN  /\ image' = Some(img)
                /\ trace' = Append(trace,
                                   Event("decode", "", "", None, Some(img)))
                /\ ppc' = after_decode(cfg)
                /\ UNCHANGED returned
    /\ UNCHANGED <<fnVars, configFile, config, pc, directory, image_files,
                   done, success_count, fail_count, output_path, calls, disk,
                   summary>>

\* process_image, lines 54-55; an exception of cv2.resize reaches line 84.
Resize ==
    /\ ppc = "resize"
    /\ LET r  == _resize_image(cfg, image[1])
           ev == Event("resize", "", r.error, image, Some(r.image))
       IN  IF r.error # ""
           THEN Return(Append(trace, ev), None) /\ UNCHANGED image
           ELSE /\ image' = Some(r.image)
                /\ trace' = Append(trace, ev)
                /\ ppc' = "denoise"
                /\ UNCHANGED returned
    /\ UNCHANGED <<fnVars, configFile, config, pc, directory, image_files,
                   done, success_count, fail_count, output_path, calls, disk,
                   summary>>

\* process_image, line 58.
Denoise ==
    /\ ppc = "denoise"
    /\ \E primitive_raises \in BOOLEAN :
         LET r == _apply_denoise(cfg, image[1], primitive_raises)
         IN  /\ image' = Some(r.image)
             /\ trace' = Append(trace, Event("denoise", r.mode, r.error,
                                             image, Some(r.image)))
    /\ ppc' = after_denoise(cfg)
    /\ UNCHANGED <<fnVars, configFile, config, pc, directory, image_files,
                   done, success_count, fail_count, output_path, calls,
                   returned, disk, summary>>

\* process_image, lines 61-62.
Sharpen ==
    /\ ppc = "sharpen"
    /\ \E primitive_raises \in BOOLEAN :
         LET r == _apply_sharpen(cfg, image[1], primitive_raises)
         IN  /\ image' = Some(r.image)
             /\ trace' = Append(trace, Event("sharpen", r.mode, r.error,
                                             image, Some(r.image)))
    /\ ppc' = "name"
    /\ UNCHANGED <<fnVars, configFile, config, pc, directory, image_files,
                   done, success_count, fail_count, output_path, calls,
                   returned, disk, summary>>

\* process_image, lines 65-71.
Name ==
    /\ ppc = "name"
    /\ output_path' = Some(generate_output_filename(
                               calls[Len(calls)],
                               cfg.paths[1].output_dir,
                               Get(cfg.prefix, "processed_"),
                               Get(cfg.format, "png"),
                               Get(cfg.keep_original_name, TRUE)))
    /\ trace' = Append(trace, Event("name", Get(cfg.format, "png"), "",
                                    image, image))
    /\ ppc' = "save"
    /\ UNCHANGED <<fnVars, configFile, config, pc, directory, image_files,
                   done, success_count, fail_count, image, calls, returned,
                   disk, summary>>

\* process_image, lines 74-82, with _save_image: cv2.imwrite reports success,
\* reports failure or raises (which _save_image turns into False).
Save ==
    /\ ppc = "save"
    /\ \E outcome \in {"", "false", "raise"} :
         LET success == (outcome = "")
         IN  /\ disk' = IF success THEN disk \cup {output_path[1]} ELSE disk
             /\ Return(Append(trace,
                              Event("write", Lower(Get(cfg.format, "png")),
                                    outcome, image, image)),
                       IF success THEN output_path ELSE None)
    /\ UNCHANGED <<fnVars, configFile, config, pc, directory, image_files,
                   done, success_count, fail_count, image, output_path, calls,
                   summary>>

\* main, lines 70-76.
Count ==
    /\ pc = "loop" /\ ppc = "return"
    /\ LET t == tally(success_count, fail_count, returned[Len(returned)].ret)
       IN  success_count' = t[1] /\ fail_count' = t[2]
    /\ done' = done + 1
    /\ ppc' = "idle"
    /\ UNCHANGED <<fnVars, configFile, config, pc, directory, image_files,
                   image, output_path, trace, calls, returned, disk, summary>>

\* main, lines 78-102: the loop is over, the summary is printed.
PrintStats ==
    /\ pc = "loop" /\ ppc = "idle" /\ done = Len(image_files)
    /\ summary' = Some([success |-> success_count, fail |-> fail_count,
                        stats |-> get_processing_stats(cfg)])
    /\ pc' = "done"
    /\ UNCHANGED <<fnVars, configFile, config, directory, image_files, done,
                   success_count, fail_count, ppc, image, output_path, trace,
                   calls, returned, disk>>

Next ==
    \/ LoadConfig \/ ConfigSummary \/ GetPaths \/ Enumerate
    \/ Call \/ Decode \/ Resize \/ Denoise \/ Sharpen \/ Name \/ Save
    \/ Count \/ PrintStats

Spec == Init /\ [][Next]_vars

(***************************************************************************)
(* Single calls of the pure helpers.                                       *)
(***************************************************************************)
InitUnsharp == args \in UnsharpArgs /\ result = None /\ fpc = "call" /\ MainIdle

UnsharpMask ==
    /\ fpc = "call"
    /\ result' = Some(unsharp_mask(args.image, args.blurred, args.strength2,
                                   args.threshold))
    /\ fpc' = "return"
    /\ UNCHANGED <<args, mainVars>>

SpecUnsharp == InitUnsharp /\ [][UnsharpMask]_vars

InitResize == args \in ResizeArgs /\ result = None /\ fpc = "call" /\ MainIdle

ResizeImage ==
    /\ fpc = "call"
    /\ result' = Some(resize_image(args.w, args.h, args.max_width,
                                   args.max_height, args.preserve_aspect))
    /\ fpc' = "return"
    /\ UNCHANGED <<args, mainVars>>

SpecResize == InitResize /\ [][ResizeImage]_vars

InitSave == args \in SaveArgs /\ result = None /\ fpc = "call" /\ MainIdle

\* _save_image: the parameters built, then cv2.imwrite's answer.
SaveImage ==
    /\ fpc = "call"
    /\ \E success \in BOOLEAN :
         result' = Some([params  |-> save_params(args.format, args.quality),
                         success |-> success])
    /\ fpc' = "return"
    /\ UNCHANGED <<args, mainVars>>

SpecSave == InitSave /\ [][SaveImage]_vars

(***************************************************************************)
(* DenoiseFilter.nlmeans_denoise, reached through apply_denoise with mode  *)
(* nlmeans.  An image buffer is its numpy shape: (h, w) or (h, w, c).      *)
(***************************************************************************)
NlmeansShapes ==
    { <<h, w>> : h \in 1 .. MaxSide, w \in 1 .. MaxSide }
    \cup { <<h, w, c>> : h \in 1 .. MaxSide, w \in 1 .. MaxSide, c \in {1, 3, 4} }

NlmeansArgs == [fn : {"apply_denoise"}, mode : {"nlmeans"}, shape : NlmeansShapes]

\* The channels of a buffer of this shape.
Channels(shape) == IF Len(shape) = 2 THEN 1 ELSE shape[3]

\* The primitive nlmeans_denoise calls: it tests len(image.shape) == 3.
nlmeans_denoise(shape) ==
    IF Len(shape) = 3
    THEN <<"fastNlMeansDenoisingColored">>
    ELSE <<"fastNlMeansDenoising">>

\* cv2.fastNlMeansDenoisingColored accepts 3- and 4-channel images only.
nlmeans_primitive_raises(primitive, shape) ==
    primitive = "fastNlMeansDenoisingColored" /\ Channels(shape) \notin {3, 4}

InitNlmeans == args \in NlmeansArgs /\ result = None /\ fpc = "call" /\ MainIdle

\* apply_denoise, lines 267-273, and nlmeans_denoise.
NlmeansDenoise ==
    /\ fpc = "call"
    /\ args.mode = "nlmeans"
    /\ LET called == nlmeans_denoise(args.shape)
       IN  result' = Some([called |-> called,
                           raised |-> nlmeans_primitive_raises(called[1],
                                                               args.shape)])
    /\ fpc' = "return"
    /\ UNCHANGED <<args, mainVars>>

SpecNlmeans == InitNlmeans /\ [][NlmeansDenoise]_vars

(***************************************************************************)
(* The claims.                                                             *)
(***************************************************************************)
AbsDiff(a, b) == IF a >= b THEN a - b ELSE b - a

\* The outcome of the process_image call that has just returned.
last == returned[Len(returned)]

\* C1 (SpecUnsharp): with threshold T > 0, a sample whose absolute difference
\* from the blurred sample is below T, whether it lies above or below the
\* blurred sample, comes out of unsharp_mask unchanged.
C1_BelowThresholdKeepsOriginal ==
    (fpc = "return" /\ args.threshold > 0
        /\ AbsDiff(args.image, args.blurred) < args.threshold)
    => result[1] = args.image

\* C2: when the configured denoise mode, or the configured mode of an enabled
\* sharpen stage, is not a known mode, process_image fails the image: nothing
\* is named, encoded or written and it returns no path.
UnknownMode(c) ==
    \/ Get(c.denoise_mode, "bilateral") \notin DenoiseModes
    \/ /\ Get(c.sharpen_enabled, TRUE)
       /\ Get(c.sharpen_mode, "unsharp_mask") \notin SharpenModes

C2_UnknownModeIsFatal ==
    (pc = "loop" /\ ppc = "return" /\ last.decoded /\ UnknownMode(cfg))
    => /\ last.ret = None
       /\ Stages(trace) \cap {"name", "write"} = {}

\* C3: when the filter primitive of the denoise or the sharpen stage raises,
\* the stage hands on exactly the image it was given (the image the previous
\* stage produced), the remaining stages run (sharpen after a failed denoise
\* when sharpening is enabled, then the write), and the call returns a path
\* exactly when the write succeeds.
PrimitiveFailed(i) ==
    trace[i].stage \in {"denoise", "sharpen"} /\ trace[i].error = "cv2.error"

C3_StageFailureIsolated ==
    \A i \in 1 .. Len(trace) :
        PrimitiveFailed(i) =>
            /\ trace[i].before = trace[i - 1].after
            /\ trace[i].after = trace[i].before
            /\ IF i = Len(trace)
               THEN image = trace[i].before /\ ppc \in {"sharpen", "name"}
               ELSE trace[i + 1].before = trace[i].before
            /\ (trace[i].stage = "denoise" /\ i < Len(trace))
                   => trace[i + 1].stage =
                          IF Get(cfg.sharpen_enabled, TRUE)
                          THEN "sharpen" ELSE "name"
            /\ ppc \in {"return", "idle"} =>
                   /\ "write" \in Stages(trace)
                   /\ trace[Len(trace)].before = image
                   /\ (last.ret # None) <=> (trace[Len(trace)].error = "")

C3_Witness ==
    /\ ppc = "return"
    /\ Len(trace) = 6
    /\ trace[2].stage = "resize" /\ trace[2].after # trace[2].before
    /\ trace[3].stage = "denoise" /\ trace[3].error = "cv2.error"
    /\ trace[4].stage = "sharpen" /\ trace[4].error = "cv2.error"
    /\ trace[6].stage = "write" /\ trace[6].error = ""
    /\ image = trace[2].after
    /\ last.ret # None

\* C4: an image that decodes reaches the write whatever the resize, denoise,
\* sharpen and naming steps do, and process_image returns a path exactly
\* when the write reports success.
C4_DecodedImageReachesWrite ==
    (pc = "loop" /\ ppc = "return" /\ last.decoded)
    => /\ "write" \in Stages(trace)
       /\ (last.ret # None) <=> last.wrote

\* C5: the driver calls process_image once per enumerated file, in order,
\* whatever the outcomes; it never ends before the last file; the counters
\* add up to the files processed, success_count is the number of images
\* whose write reported success, and the summary prints these counts.
Wrote(n) == { i \in 1 .. n : returned[i].wrote }

C5_BatchCountsTruthful ==
    /\ Len(calls) <= Len(image_files)
    /\ calls = SubSeq(image_files, 1, Len(calls))
    /\ Len(calls) = done + (IF ppc = "idle" THEN 0 ELSE 1)
    /\ Len(returned) = done + (IF ppc = "return" THEN 1 ELSE 0)
    /\ success_count + fail_count = done
    /\ success_count = Cardinality(Wrote(done))
    /\ pc \in {"crashed", "exit"} => calls = <<>>
    /\ pc = "exit" => image_files = <<>>
    /\ pc = "done" =>
           /\ done = Len(image_files)
           /\ summary[1].success = Cardinality(Wrote(Len(image_files)))
           /\ summary[1].success + summary[1].fail = Len(image_files)

C5_Witness ==
    /\ pc = "done"
    /\ Len(image_files) = 2
    /\ ~returned[1].decoded
    /\ returned[2].decoded /\ ~returned[2].wrote
    /\ summary[1].success = 0 /\ summary[1].fail = 2

\* C6: when every enumerated file decodes and every write succeeds, the
\* output directory holds exactly one file per supported input file, at
\* {output_dir}/{prefix}{name without extension}.{format}, and no file
\* with an unsupported extension was handed to process_image.
Supported(dir) ==
    { e \in dir[1] : e.isfile /\ Lower(e.ext) \in supported_formats }

ExpectedPath(e) ==
    [dir |-> "output", prefix |-> Get(cfg.prefix, "processed_"),
     name |-> e.stem, format |-> Get(cfg.format, "png")]

C6_OneOutputPerInput ==
    (pc = "done" /\ \A i \in 1 .. Len(returned) :
                        returned[i].decoded /\ returned[i].wrote)
    => /\ Cardinality(disk) = Cardinality(Supported(directory))
       /\ disk = { ExpectedPath(e) : e \in Supported(directory) }
       /\ \A i \in 1 .. Len(calls) :
              Lower(calls[i].ext) \in supported_formats

\* C7: a malformed config.yaml (not parsable, empty, or a mapping without
\* the paths, denoise, sharpen or output keys) makes the program run with
\* the built-in default configuration instead of aborting.
Malformed(file) ==
    \/ file.kind \in {"unparsable", "empty"}
    \/ /\ file.kind = "mapping"
       /\ \/ ~HasKey(file.content.paths)
          \/ ~HasKey(file.content.denoise_mode)
          \/ ~HasKey(file.content.sharpen_enabled)
          \/ ~HasKey(file.content.format)

C7_MalformedFallsBack ==
    (Malformed(configFile) /\ pc \notin {"off", "load"})
    => config = Some(get_default_config) /\ pc # "crashed"

\* C8 (SpecResize): an image within the maxima keeps its size; otherwise
\* with aspect preservation both sides are scaled by s = min(maxW/w, maxH/h)
\* and floored, without it the size is maxW x maxH; 3000x2000 under
\* 1920x1080 gives 1620x1080; the new width is in 1..maxW and the new height
\* in 1..maxH, so the resize succeeds.
\* floor(x * num / den), as the greatest n with n * den <= x * num.
FloorScaled(x, num, den) ==
    CHOOSE n \in 0 .. x * num : n * den <= x * num /\ (n + 1) * den > x * num

C8_ExpectedSize(w, h, maxW, maxH, preserve) ==
    IF w <= maxW /\ h <= maxH THEN <<w, h>>
    ELSE IF ~preserve THEN <<maxW, maxH>>
    ELSE IF maxW * h <= maxH * w
         THEN <<FloorScaled(w, maxW, w), FloorScaled(h, maxW, w)>>
         ELSE <<FloorScaled(w, maxH, h), FloorScaled(h, maxH, h)>>

C8_ResizeWithinBounds ==
    fpc = "return" =>
        /\ ~result[1].raised
        /\ result[1].size = C8_ExpectedSize(args.w, args.h, args.max_width,
                                            args.max_height,
                                            args.preserve_aspect)
        /\ result[1].size[1] \in 1 .. args.max_width
        /\ result[1].size[2] \in 1 .. args.max_height
        /\ (args.w = 3000 /\ args.h = 2000 /\ args.preserve_aspect)
               => result[1].size = <<1620, 1080>>

\* C9 (SpecSave): for png output the compression level handed to the writer
\* is clamp(0, 9, floor((100 - quality) / 10)), always in 0..9, and 0 for
\* quality 95.
FloorDiv(n, d) == CHOOSE q \in (0 - AbsDiff(n, 0)) .. AbsDiff(n, 0) :
                      q * d <= n /\ n < (q + 1) * d

Clamp(lo, hi, x) == IF x < lo THEN lo ELSE IF x > hi THEN hi ELSE x

C9_PngCompressionLevel ==
    (fpc = "return" /\ Lower(args.format) = "png")
    => /\ result[1].params =
              <<"IMWRITE_PNG_COMPRESSION",
                Clamp(0, 9, FloorDiv(100 - args.quality, 10))>>
       /\ result[1].params[2] \in 0 .. 9
       /\ args.quality = 95 => result[1].params[2] = 0

C9_Witness ==
    /\ fpc = "return"
    /\ args.format = "PNG" /\ args.quality = 95
    /\ result[1].params = <<"IMWRITE_PNG_COMPRESSION", 0>>

\* C10: the summary names the denoise mode, whether sharpening ran and with
\* which mode, and the output format the pipeline used for the batch's
\* images, also when the configuration leaves those keys to the defaults.
C10_SummaryReportsWhatRan ==
    pc = "done" =>
        \A i \in 1 .. Len(returned) :
            LET stats == summary[1].stats
            IN  /\ returned[i].denoise # None
                       => stats.denoise_mode = returned[i].denoise
                /\ returned[i].denoise # None
                       => (stats.sharpen_enabled <=> returned[i].sharpen # None)
                /\ returned[i].sharpen # None
                       => stats.sharpen_mode = returned[i].sharpen
                /\ returned[i].format # None
                       => stats.output_format = returned[i].format

\* C11: per image the stages run in the order decode, resize (only when
\* processing.resize is set), denoise (not gated by any setting), sharpen
\* (only when sharpen.enabled, default true), then naming and the write; no
\* stage runs twice; after a failed decode nothing else runs; the sharpen
\* selector is never called when sharpening is disabled; the write happens
\* at most once and only after denoise was attempted.
ExpectedStages(c) ==
    <<"decode">>
    \o (IF Get(c.resize, FALSE) THEN <<"resize">> ELSE <<>>)
    \o <<"denoise">>
    \o (IF Get(c.sharpen_enabled, TRUE) THEN <<"sharpen">> ELSE <<>>)
    \o <<"name", "write">>

StagesRun == [i \in 1 .. Len(trace) |-> trace[i].stage]

Occurrences(stage) == Cardinality({ i \in 1 .. Len(trace) : trace[i].stage = stage })

\* The stage an action of process_image is about to run.
StageAt(p) == IF p = "save" THEN "write" ELSE p

C11_StagesInOrder ==
    (trace # <<>> \/ ppc # "idle") =>
        LET expected == ExpectedStages(cfg)
            n        == Len(trace)
        IN  /\ n <= Len(expected)
            /\ StagesRun = SubSeq(expected, 1, n)
            /\ \A st \in Stages(trace) : Occurrences(st) = 1
            /\ ("resize" \in Stages(trace)) => Get(cfg.resize, FALSE)
            /\ ("sharpen" \in Stages(trace)) => Get(cfg.sharpen_enabled, TRUE)
            /\ (n >= 1 /\ trace[1].error # "") => n = 1 /\ ppc \in {"return", "idle"}
            /\ ("write" \in Stages(trace)) =>
                   \E i, j \in 1 .. n : /\ i < j
                                        /\ trace[i].stage = "denoise"
                                        /\ trace[j].stage = "write"
            /\ ppc \notin {"return", "idle"} => StageAt(ppc) = expected[n + 1]
            /\ ppc \in {"return", "idle"} =>
                   \/ StagesRun = expected
                   \/ trace[n].stage \in {"decode", "resize"} /\ trace[n].error # ""

C11_Witness ==
    /\ ppc = "return"
    /\ ~Get(cfg.sharpen_enabled, TRUE)
    /\ StagesRun = <<"decode", "resize", "denoise", "name", "write">>
    /\ trace[2].after # trace[2].before
    /\ trace[5].error = ""

\* C12 (SpecNlmeans): nlmeans denoise calls the colored primitive exactly
\* when the image has 3 channels and the grayscale primitive for every other
\* image, a single-channel buffer of shape (h, w, 1) included; exactly one of
\* the two is called.
C12_NlmeansDispatchByChannels ==
    fpc = "return" =>
        /\ Len(result[1].called) = 1
        /\ result[1].called[1] =
               IF Channels(args.shape) = 3
               THEN "fastNlMeansDenoisingColored"
               ELSE "fastNlMeansDenoising"

====
